---- MODULE Spec2Model ----
(***************************************************************************)
(* react-translate: createTranslations(initialLocale) and the hooks and   *)
(* Provider it returns, modelled over React's useState / useMemo /        *)
(* useContext render cycle.                                                *)
(*                                                                         *)
(* Each Provider instance owns one useState cell.  setLocale enqueues an   *)
(* update on the cell; the next render of the Provider (the propagation    *)
(* cycle) reduces the queue, rebuilds the memoised context value when the  *)
(* locale changed, and re-renders the consuming component (App).           *)
(***************************************************************************)
EXTENDS Naturals, Sequences, FiniteSets, TLC

\* ---------------------------------------------------------------- bounds
\* Most setLocale calls waiting for a render, over all Providers.
MaxPending == 1

\* ------------------------------------------------------------ input sets
\* type Locale = "fr" | "en" | "es"
Locales == {"fr", "en", "es"}

\* A name every JavaScript object inherits from Object.prototype.
ObjectPrototype == {"toString"}

\* Strings the runtime can hand to setLocale: the typing is erased at runtime,
\* so strings outside Locale are included.
RuntimeLocales == Locales \cup ObjectPrototype

\* Updater functions (the function arm of SetStateAction<Locale>), by name.
Updaters ==
  [next |-> [l \in RuntimeLocales |->
               CASE l = "fr" -> "en"
                 [] l = "en" -> "es"
                 [] OTHER    -> "fr"]]

\* SetStateAction<Locale>: a locale value or an updater function.
SetStateActions == RuntimeLocales \cup DOMAIN Updaters

\* Two createTranslations invocations and the initialLocale each closes over.
Factories == {"F1", "F2"}

initialLocale == [f \in Factories |-> IF f = "F1" THEN "fr" ELSE "en"]

\* Provider instances mounted side by side (two <LocaleProvider> subtrees).
Providers == {"A", "B"}

\* The object literal handed to useTranslations: App's "title" entry (its
\* texts in ASCII), plus an entry whose inner mapping covers one locale only.
translations ==
  [title    |-> [fr |-> "Bonjour, tout le monde !",
                 en |-> "Hello, everyone!",
                 es |-> "Hola, a todos!"],
   greeting |-> [fr |-> "Salut"]]

\* Keys translate is called with: present, partially covered, absent, and
\* absent but inherited from Object.prototype.
Keys == {"title", "greeting", "missing", "toString"}

\* ----------------------------------------------------- JavaScript values
Str(s) == [t |-> "string", s |-> s]

Undefined == [t |-> "undefined", s |-> ""]

\* The inner mapping translations[k].
Obj(k) == [t |-> "object", s |-> k]

\* The function Object.prototype[n].
Fun(n) == [t |-> "function", s |-> n]

\* !v
Falsy(v) == v.t = "undefined" \/ (v.t = "string" /\ v.s = "")

\* translations[key]: own property, else the prototype chain, else undefined.
GetTranslation(table, key) ==
  IF key \in DOMAIN table THEN Obj(key)
  ELSE IF key \in ObjectPrototype THEN Fun(key)
  ELSE Undefined

\* Reading a property of undefined throws.
TypeError == [t |-> "TypeError", s |-> ""]

\* translation[locale]: own property, else the prototype chain, else undefined.
GetLocaleEntry(table, translation, locale) ==
  IF translation.t = "undefined" THEN TypeError
  ELSE IF translation.t = "object" /\ locale \in DOMAIN table[translation.s]
    THEN Str(table[translation.s][locale])
  ELSE IF locale \in ObjectPrototype THEN Fun(locale)
  ELSE Undefined

\* A translate with the guard inverted.
translateInverted(table, locale, key) ==
  LET translation == GetTranslation(table, key)
  IN  IF ~Falsy(translation) THEN Str("")
      ELSE GetLocaleEntry(table, translation, locale)

\* function translate(key), closed over translations and locale.
translate(table, locale, key) ==
  LET translation == GetTranslation(table, key)
  IN  IF Falsy(translation) THEN Str("")
      ELSE GetLocaleEntry(table, translation, locale)

\* ------------------------------------------------------------------ state
VARIABLES
  factory,    \* the createTranslations invocation each Provider comes from
  mounted,    \* whether the Provider instance is mounted
  hook,       \* the Provider's useState cell: the committed locale
  destroyed,  \* history: the locale of the cell the last unmount destroyed
  queue,      \* setLocale calls dispatched to the cell and not yet rendered
  memo,       \* the Provider's useMemo slot: its deps and context value
  app,        \* what the consuming component holds from its last render
  last        \* the last operation performed, its argument and its result

vars == <<factory, mounted, hook, destroyed, queue, memo, app, last>>

NoState == "<none>"

NoMemo == [deps |-> NoState, value |-> [locale |-> NoState, setLocale |-> "noop"]]

NoApp ==
  [locale |-> NoState, setLocale |-> "noop", captured |-> "noop",
   translateLocale |-> NoState, title |-> Undefined]

Op(op, who, arg, value) == [op |-> op, who |-> who, arg |-> arg, value |-> value]

\* ------------------------------------------------------- React primitives
\* A reducer that validates: values outside Locale are dropped.
basicStateReducerValidating(state, action) ==
  IF action \in DOMAIN Updaters THEN Updaters[action][state]
  ELSE IF action \in Locales THEN action
  ELSE state

\* React's basicStateReducer: an updater function is applied to the previous
\* state, any other value replaces it.
basicStateReducer(state, action) ==
  IF action \in DOMAIN Updaters THEN Updaters[action][state] ELSE action

\* The pending updates of a cell, reduced in dispatch order.
RECURSIVE updateReducer(_, _)
updateReducer(state, pending) ==
  IF pending = <<>> THEN state
  ELSE updateReducer(basicStateReducer(state, Head(pending)), Tail(pending))

\* A setter bound to one cell shared by every Provider.
UseStateSetterShared(p) == "A"

\* The setter useState returns: bound to the cell of Provider p, stable
\* across renders.
UseStateSetter(p) == p

\* Calling a setter: the no-op default does nothing; a cell's dispatch
\* enqueues the action while the cell's Provider is mounted.
Dispatch(setter, action) ==
  IF setter \in Providers /\ mounted[setter]
    THEN [queue EXCEPT ![setter] = Append(@, action)]
    ELSE queue

\* A useMemo whose dependency list is empty: never recomputed.
UseMemoNoDeps(prev, deps, fresh) == prev.value

\* useMemo(compute, [deps]): the previous value unless a dep changed.
UseMemo(prev, deps, fresh) ==
  IF prev.deps = deps THEN prev.value ELSE fresh

\* ------------------------------------------------------ createTranslations
\* A default context whose setter is wired to a Provider's cell.
LocaleContextShared(f) == [locale |-> initialLocale[f], setLocale |-> "A"]

\* createContext({ locale: initialLocale, setLocale: () => { } })
LocaleContext(f) == [locale |-> initialLocale[f], setLocale |-> "noop"]

\* useContext(LocaleContext): the value of the nearest enclosing Provider of
\* the same factory, else the context's default.
UseContext(f, p, m) ==
  IF p \in Providers /\ factory[p] = f THEN m[p].value ELSE LocaleContext(f)

\* A useLocale that reads a context no Provider feeds.
useLocaleDefault(f, p, m) == LocaleContext(f)

\* function useLocale()
useLocale(f, p, m) ==
  LET ctx == UseContext(f, p, m)
  IN  [locale |-> ctx.locale, setLocale |-> ctx.setLocale]

\* A useTranslations whose translate closes over initialLocale.
useTranslationsInitial(f, p, m) == [locale |-> initialLocale[f]]

\* function useTranslations(translations): the locale translate closes over.
useTranslations(f, p, m) == [locale |-> useLocale(f, p, m).locale]

\* A useState that takes its initial value again when nothing is pending.
UseStateReinit(f, p, first) ==
  IF first \/ queue[p] = <<>> THEN initialLocale[f]
  ELSE updateReducer(hook[p], queue[p])

\* const [locale, setLocale] = useState<Locale>(initialLocale)
UseState(f, p, first) ==
  IF first THEN initialLocale[f] ELSE updateReducer(hook[p], queue[p])

\* function LocaleProvider: the useMemo slot after rendering with `locale`.
LocaleProvider(p, locale, prev, first) ==
  LET fresh == [locale |-> locale, setLocale |-> UseStateSetter(p)]
  IN  [deps  |-> locale,
       value |-> IF first THEN fresh ELSE UseMemo(prev, locale, fresh)]

\* function App: one render of the consuming component under Provider p.
\* The click callbacks are memoised with [] and keep the first setLocale.
App(f, p, m, prev, first) ==
  LET l == useLocale(f, p, m)
      t == useTranslations(f, p, m)
  IN  [locale          |-> l.locale,
       setLocale       |-> l.setLocale,
       captured        |-> IF first THEN l.setLocale ELSE prev.captured,
       translateLocale |-> t.locale,
       title           |-> translate(translations, t.locale, "title")]

\* ---------------------------------------------------------------- actions
Init ==
  /\ factory \in {g \in [Providers -> Factories] : g["A"] = "F1"}
  /\ mounted = [p \in Providers |-> FALSE]
  /\ hook = [p \in Providers |-> NoState]
  /\ destroyed = [p \in Providers |-> NoState]
  /\ queue = [p \in Providers |-> <<>>]
  /\ memo = [p \in Providers |-> NoMemo]
  /\ app = [p \in Providers |-> NoApp]
  /\ last = Op("init", "", "", Undefined)

\* root.render(<LocaleProvider><App /></LocaleProvider>).  The operation
\* record keeps the locale the Provider's previous cell held, if any.
Mount(p) ==
  /\ ~mounted[p]
  /\ LET f      == factory[p]
         locale == UseState(f, p, TRUE)
         m      == [memo EXCEPT ![p] = LocaleProvider(p, locale, memo[p], TRUE)]
     IN  /\ mounted' = [mounted EXCEPT ![p] = TRUE]
         /\ hook' = [hook EXCEPT ![p] = locale]
         /\ queue' = [queue EXCEPT ![p] = <<>>]
         /\ memo' = m
         /\ app' = [app EXCEPT ![p] = App(f, p, m, NoApp, TRUE)]
  /\ destroyed' = [destroyed EXCEPT ![p] = NoState]
  /\ last' = Op("mount", p, destroyed[p], Undefined)
  /\ UNCHANGED factory

\* The Provider unmounts: its state cell and its subtree are discarded.
Unmount(p) ==
  /\ mounted[p]
  /\ mounted' = [mounted EXCEPT ![p] = FALSE]
  /\ destroyed' = [destroyed EXCEPT ![p] = hook[p]]
  /\ hook' = [hook EXCEPT ![p] = NoState]
  /\ queue' = [queue EXCEPT ![p] = <<>>]
  /\ memo' = [memo EXCEPT ![p] = NoMemo]
  /\ app' = [app EXCEPT ![p] = NoApp]
  /\ last' = Op("unmount", p, "", Undefined)
  /\ UNCHANGED factory

\* One propagation cycle: the Provider re-renders, and App re-renders when
\* the context value it consumes is a new one.
Render(p) ==
  /\ mounted[p]
  /\ LET f      == factory[p]
         locale == UseState(f, p, FALSE)
         slot   == LocaleProvider(p, locale, memo[p], FALSE)
         m      == [memo EXCEPT ![p] = slot]
     IN  /\ hook' = [hook EXCEPT ![p] = locale]
         /\ queue' = [queue EXCEPT ![p] = <<>>]
         /\ memo' = m
         /\ app' = IF slot.value # memo[p].value
                     THEN [app EXCEPT ![p] = App(f, p, m, app[p], FALSE)]
                     ELSE app
  /\ last' = Op("render", p, "", Undefined)
  /\ UNCHANGED <<factory, mounted, destroyed>>

Bounded(q) == Len(q["A"]) + Len(q["B"]) <= MaxPending

\* A descendant calls the setLocale its last render got from useLocale().
SetLocale(p, a) ==
  /\ mounted[p]
  /\ Bounded(Dispatch(app[p].setLocale, a))
  /\ queue' = Dispatch(app[p].setLocale, a)
  /\ last' = Op("setLocale", p, "", Undefined)
  /\ UNCHANGED <<factory, mounted, hook, destroyed, memo, app>>

\* A button click: App's useCallback(..., []) calls the setLocale captured
\* at its first render.
Click(p, a) ==
  /\ mounted[p]
  /\ Bounded(Dispatch(app[p].captured, a))
  /\ queue' = Dispatch(app[p].captured, a)
  /\ last' = Op("click", p, "", Undefined)
  /\ UNCHANGED <<factory, mounted, hook, destroyed, memo, app>>

\* A descendant calls the translate its last render got from useTranslations.
Translate(p, k) ==
  /\ mounted[p]
  /\ last' = Op("translate", p, k,
                translate(translations, app[p].translateLocale, k))
  /\ UNCHANGED <<factory, mounted, hook, destroyed, queue, memo, app>>

\* A descendant renders and calls useLocale().
UseLocale(p) ==
  /\ mounted[p]
  /\ last' = Op("useLocale", p, "", Str(useLocale(factory[p], p, memo).locale))
  /\ UNCHANGED <<factory, mounted, hook, destroyed, queue, memo, app>>

\* A component with no enclosing Provider of factory f calls useLocale().
OutsideUseLocale(f) ==
  /\ last' = Op("outsideUseLocale", f, "",
                Str(useLocale(f, "none", memo).locale))
  /\ UNCHANGED <<factory, mounted, hook, destroyed, queue, memo, app>>

\* ... calls the setLocale that useLocale() gave it.
OutsideSetLocale(f, a) ==
  /\ Bounded(Dispatch(useLocale(f, "none", memo).setLocale, a))
  /\ queue' = Dispatch(useLocale(f, "none", memo).setLocale, a)
  /\ last' = Op("outsideSetLocale", f, "", Undefined)
  /\ UNCHANGED <<factory, mounted, hook, destroyed, memo, app>>

Next ==
  \/ \E p \in Providers : Mount(p)
  \/ \E p \in Providers : Unmount(p)
  \/ \E p \in Providers : Render(p)
  \/ \E p \in Providers, a \in SetStateActions : SetLocale(p, a)
  \/ \E p \in Providers, a \in Locales : Click(p, a)
  \/ \E p \in Providers, k \in Keys : Translate(p, k)
  \/ \E p \in Providers : UseLocale(p)
  \/ \E f \in Factories : OutsideUseLocale(f)
  \/ \E f \in Factories, a \in SetStateActions : OutsideSetLocale(f, a)

Spec == Init /\ [][Next]_vars

\* ----------------------------------------------------------------- claims
Last(q) == q[Len(q)]

Front(q) == SubSeq(q, 1, Len(q) - 1)

Frame(q) ==
  /\ mounted'[q] = mounted[q]
  /\ hook'[q] = hook[q]
  /\ queue'[q] = queue[q]
  /\ memo'[q] = memo[q]
  /\ app'[q] = app[q]

\* C1: under a Provider whose current locale is an allowed locale L, for every
\* key K of the table with an entry for L, the translate function of the
\* consuming component returns exactly translations[K][L], whatever setLocale
\* calls led to L; and so does every translate call actually made.
C1_TranslateReturnsEntry ==
  \A p \in Providers :
    mounted[p] /\ hook[p] \in Locales =>
      /\ \A k \in DOMAIN translations :
           hook[p] \in DOMAIN translations[k] =>
             translate(translations, app[p].translateLocale, k)
               = Str(translations[k][hook[p]])
      /\ ( /\ last.op = "translate"
           /\ last.who = p
           /\ last.arg \in DOMAIN translations
           /\ hook[p] \in DOMAIN translations[last.arg] )
         => last.value = Str(translations[last.arg][hook[p]])

\* A translate("title") call made after the locale was switched to "es".
C1_Witness ==
  /\ last.op = "translate"
  /\ last.arg = "title"
  /\ mounted[last.who]
  /\ hook[last.who] = "es"
  /\ last.value = Str("Hola, a todos!")

\* C2: for every key absent from the table, translate returns the empty
\* string, whatever the current locale.
C2_AbsentKeyReturnsEmpty ==
  (last.op = "translate" /\ last.arg \notin DOMAIN translations)
    => last.value = Str("")

\* C3: for a key present in the table whose inner mapping has no entry for the
\* current locale, translate returns undefined.
C3_InnerMissReturnsUndefined ==
  ( /\ last.op = "translate"
    /\ last.arg \in DOMAIN translations
    /\ hook[last.who] \notin DOMAIN translations[last.arg] )
  => last.value = Undefined

\* C4: when a Provider whose locale is L1 re-renders after setLocale(L2), L1
\* and L2 any allowed locales (equal or not), its locale is L2, and L2 is what
\* useLocale() reports in the re-rendered component and to any later caller.
\* L2 is the value of the most recent setLocale call before the render.
C4_SetLocalePropagates ==
  [][\A p \in Providers :
       ( /\ Render(p)
         /\ queue[p] # <<>>
         /\ hook[p] \in Locales
         /\ Last(queue[p]) \in Locales )
       => /\ hook'[p] = Last(queue[p])
          /\ app'[p].locale = Last(queue[p])
          /\ useLocale(factory[p], p, memo').locale = Last(queue[p])]_vars

\* A Provider created with "fr" or "en" that has just rendered "es".
C4_Witness ==
  /\ last.op = "render"
  /\ mounted[last.who]
  /\ hook[last.who] = "es"
  /\ app[last.who].locale = "es"

\* C5: in every rendered state the locale translate closes over is the locale
\* useLocale() reported in the same render, which is the Provider's locale;
\* the rendered translate("title") is the table's text for it, and right after
\* mounting it is the text for initialLocale.
C5_TranslateFollowsLocale ==
  \A p \in Providers :
    mounted[p] =>
      /\ app[p].translateLocale = app[p].locale
      /\ app[p].locale = hook[p]
      /\ hook[p] \in Locales =>
           app[p].title = Str(translations["title"][hook[p]])
      /\ (last.op = "mount" /\ last.who = p) =>
           app[p].title = Str(translations["title"][initialLocale[factory[p]]])

\* The Provider of the "fr" factory after setLocale("en") and a render.
C5_Witness ==
  /\ last.op = "render"
  /\ factory[last.who] = "F1"
  /\ hook[last.who] = "en"
  /\ app[last.who].title = Str("Hello, everyone!")

\* C6: with no enclosing Provider of its factory, useLocale() returns the
\* factory's initialLocale, and calling the setter it returns, with any
\* argument, changes nothing that a Provider, a component or a translate reads.
C6_DefaultContextIsInert ==
  [][/\ last'.op = "outsideUseLocale"
          => last'.value = Str(initialLocale[last'.who])
     /\ last'.op = "outsideSetLocale"
          => UNCHANGED <<factory, mounted, hook, destroyed, queue, memo, app>>]_vars

\* The default setter was called while both Providers were mounted, one of
\* them on a locale other than its initial one.
C6_Witness ==
  /\ last.op = "outsideSetLocale"
  /\ \A p \in Providers : mounted[p]
  /\ \E p \in Providers :
       factory[p] = last.who /\ hook[p] # initialLocale[factory[p]]

\* C7: a setLocale call made in one Provider's subtree, and the render that
\* propagates it, leave the other Provider's state, context value and
\* component unchanged, whether the two come from the same factory or not.
C7_SubtreesIndependent ==
  [][\A p, q \in Providers :
       ( /\ p # q
         /\ last'.op \in {"setLocale", "click", "render"}
         /\ last'.who = p )
       => Frame(q)]_vars

\* Two Providers of the same factory: A rendered "es", B still on "fr".
C7_Witness ==
  /\ last.op = "render"
  /\ last.who = "A"
  /\ factory["B"] = factory["A"]
  /\ mounted["B"]
  /\ hook["A"] = "es"
  /\ hook["B"] = "fr"

\* C8 as stated: after the render, the locale is exactly the value passed to
\* setLocale, for every argument.
C8_AnyValueStoredVerbatim ==
  [][\A p \in Providers :
       (Render(p) /\ queue[p] # <<>>)
       => /\ hook'[p] = Last(queue[p])
          /\ app'[p].locale = Last(queue[p])]_vars

\* C8 amended: after the render, the locale is exactly the value passed to the
\* most recent setLocale call when that value is not a function, whether or not
\* it is an allowed locale; a function is called with the locale the earlier
\* pending calls produce and its result is stored.
C8_NonFunctionStoredVerbatim ==
  [][\A p \in Providers :
       (Render(p) /\ queue[p] # <<>>)
       => LET a == Last(queue[p])
              stored == IF a \in DOMAIN Updaters
                          THEN Updaters[a][updateReducer(hook[p], Front(queue[p]))]
                          ELSE a
          IN  /\ hook'[p] = stored
              /\ app'[p].locale = stored]_vars

\* A string outside Locale was stored and rendered.
C8_Witness ==
  /\ last.op = "render"
  /\ hook[last.who] = "toString"
  /\ app[last.who].locale = "toString"

\* C9 as stated: the slot gets initialLocale at the first mount and is not
\* re-initialised on a re-mount; apart from that only setLocale changes it.
C9_NeverReinitialisedOnRemount ==
  (last.op = "mount" /\ last.arg # NoState) => hook[last.who] = last.arg

\* C9 amended: the slot gets initialLocale at every mount, a re-mount
\* included; while the Provider stays mounted its locale changes only in a
\* render that has a setLocale call pending, and a render with none pending,
\* useLocale and translate leave locale, queue and component unchanged.
C9_SlotSeededAtMountOnly ==
  [][\A p \in Providers :
       /\ (last'.op = "mount" /\ last'.who = p)
            => hook'[p] = initialLocale[factory[p]]
       /\ (mounted[p] /\ mounted'[p] /\ hook'[p] # hook[p])
            => (last'.op = "render" /\ last'.who = p /\ queue[p] # <<>>)
       /\ (last'.op = "render" /\ last'.who = p /\ queue[p] = <<>>)
            => Frame(p)
       /\ last'.op \in {"translate", "useLocale", "outsideUseLocale"}
            => Frame(p)]_vars

\* A Provider re-mounted on "fr" after its previous cell held "en".
C9_Witness ==
  /\ last.op = "mount"
  /\ last.arg = "en"
  /\ hook[last.who] = "fr"

\* C10: the setLocale App captured at its first render is, in every later
\* render, the setter of the Provider's live cell; a click calling it after
\* any number of locale changes enqueues its locale on that Provider's cell.
C10_CapturedSetterStaysValid ==
  [][\A p \in Providers :
       /\ mounted'[p] => app'[p].captured = memo'[p].value.setLocale
       /\ (last'.op = "click" /\ last'.who = p)
            => /\ Len(queue'[p]) = Len(queue[p]) + 1
               /\ Front(queue'[p]) = queue[p]
               /\ Last(queue'[p]) \in Locales]_vars

\* A click on a Provider whose locale is no longer its initial one.
C10_Witness ==
  /\ last.op = "click"
  /\ hook[last.who] # initialLocale[factory[last.who]]
  /\ queue[last.who] # <<>>

====
